---- MODULE Spec2Model ----
(***************************************************************************)
(* A model of the OpenAI-compatible proxy in src/aws-claude.py:            *)
(*   - invoke_with_retry: the retry loop around one backend operation;     *)
(*   - completions / chat_completions: how a client request becomes the    *)
(*     body dispatched to the backend (reasoning "thinking" config);       *)
(*   - the two generate_stream translators from backend frames to SSE.     *)
(* Each part has its own specification over the same variables; the parts  *)
(* that a specification does not exercise stay at their idle values.       *)
(***************************************************************************)
EXTENDS Integers, Sequences, FiniteSets, TLC

VARIABLES
    \* invoke_with_retry
    rpc,        \* position in the loop: idle / Attempting / Retrying / Success / Failed
    retries,    \* the local variable `retries`
    calls,      \* number of times func(**kwargs) was called
    hist,       \* outcome of every call of func, in order
    sleeps,     \* argument of every time.sleep, in units of 1/JitterDen second
    jitters,    \* the random.uniform(0, 1) drawn for every sleep, same unit
    returned,   \* index of the call whose response was returned (0: none)
    raised,     \* the error raised to the caller ("none": none)
    \* request handlers
    hpc,        \* position of the handler: idle / start / dispatched /
                \* http200 / http200stream / http400 / http500
    endpoint,   \* "completions" or "chat"
    debug,      \* DEBUG_MODE
    req,        \* the client's JSON request
    body,       \* the body handed to the backend operation
    bed_response,      \* the parsed payload of the backend's response
    content,           \* the local variable `content` (extracted text)
    thinking_content,  \* the local variable `thinking_content`
    openai_response,   \* what the handler returns to the client
    \* generate_stream
    spc,        \* idle / streaming / ended / failed
    sendpoint,  \* the endpoint whose generate_stream runs
    inp,        \* backend frames pulled so far
    out         \* SSE frames yielded so far

retryVars == <<rpc, retries, calls, hist, sleeps, jitters, returned, raised>>
handlerVars ==
    <<hpc, endpoint, debug, req, body,
      bed_response, content, thinking_content, openai_response>>
streamVars == <<spc, sendpoint, inp, out>>
vars == <<retryVars, handlerVars, streamVars>>

Min(a, b) == IF a <= b THEN a ELSE b
Max(a, b) == IF a >= b THEN a ELSE b

RECURSIVE Pow2(_)
Pow2(k) == IF k = 0 THEN 1 ELSE 2 * Pow2(k - 1)

Last(s) == s[Len(s)]

(***************************************************************************)
(* Global configuration                                                    *)
(***************************************************************************)
DEFAULT_MAX_TOKENS == 4096
MAX_OUTPUT_TOKENS == 128000
MAX_RETRIES == 5
BASE_DELAY == 1
MAX_DELAY == 30

\* Bounds of the model.
JitterDen == 3      \* random.uniform(0, 1) is drawn from {0, 1/JitterDen, ...} < 1
MaxFrames == 4      \* longest backend frame sequence of one stream

(***************************************************************************)
(* invoke_with_retry                                                       *)
(***************************************************************************)
Throttling == "ThrottlingException"
OtherClientError == "AccessDeniedException"
OtherException == "Exception"
Outcomes == {"ok", Throttling, OtherClientError, OtherException}

RetryIdle ==
    /\ rpc = "idle" /\ retries = 0 /\ calls = 0 /\ hist = <<>>
    /\ sleeps = <<>> /\ jitters = <<>> /\ returned = 0 /\ raised = "none"

\* retries = 0 on entry
RetryStart ==
    /\ rpc = "Attempting" /\ retries = 0 /\ calls = 0 /\ hist = <<>>
    /\ sleeps = <<>> /\ jitters = <<>> /\ returned = 0 /\ raised = "none"

ShouldRetry_AnyClientError(o, r) ==
    o \in {Throttling, OtherClientError} /\ r < MAX_RETRIES

ShouldRetry_NoLimit(o, r) == o = Throttling

\* except ClientError: error_code == 'ThrottlingException' and retries < MAX_RETRIES
ShouldRetry(o, r) == o = Throttling /\ r < MAX_RETRIES

Delay_Linear(k, j) ==
    Min(MAX_DELAY * JitterDen, BASE_DELAY * (k + 1) * JitterDen + j)

\* min(MAX_DELAY, BASE_DELAY * (2 ** retries) + random.uniform(0, 1))
Delay(k, j) ==
    Min(MAX_DELAY * JitterDen, BASE_DELAY * Pow2(k) * JitterDen + j)

\* One pass of the while loop up to its return, its raise or its sleep.
InvokeAttempt(o) ==
    /\ rpc = "Attempting"
    /\ retries <= MAX_RETRIES
    /\ calls' = calls + 1
    /\ hist' = Append(hist, o)
    /\ IF o = "ok"
         THEN rpc' = "Success" /\ returned' = calls + 1 /\ raised' = raised
         ELSE IF ShouldRetry(o, retries)
           THEN rpc' = "Retrying" /\ UNCHANGED <<returned, raised>>
           ELSE rpc' = "Failed" /\ raised' = o /\ returned' = returned
    /\ UNCHANGED <<retries, sleeps, jitters, handlerVars, streamVars>>

BackoffSleep_NoSleep(j) ==
    /\ rpc = "Retrying"
    /\ retries' = retries + 1
    /\ rpc' = "Attempting"
    /\ UNCHANGED <<sleeps, jitters, calls, hist, returned, raised, handlerVars, streamVars>>

\* delay = ...; time.sleep(delay); retries += 1
BackoffSleep(j) ==
    /\ rpc = "Retrying"
    /\ sleeps' = Append(sleeps, Delay(retries, j))
    /\ jitters' = Append(jitters, j)
    /\ retries' = retries + 1
    /\ rpc' = "Attempting"
    /\ UNCHANGED <<calls, hist, returned, raised, handlerVars, streamVars>>

RetryNext ==
    \/ \E o \in Outcomes : InvokeAttempt(o)
    \/ \E j \in 0 .. (JitterDen - 1) : BackoffSleep(j)

(***************************************************************************)
(* generate_stream: backend frames and SSE frames                          *)
(***************************************************************************)
\* A parsed backend frame: chunk.type, chunk.delta.type, chunk.delta.text,
\* chunk.delta.thinking, chunk.delta.stop_reason and chunk.stop_reason.  An
\* absent type or text is "", an absent stop_reason is "none".
Frame(type, dtype, text, thinking, dstop, stop) ==
    [type |-> type, dtype |-> dtype, text |-> text, thinking |-> thinking,
     dstop |-> dstop, stop |-> stop]

TextDelta(t) == Frame("content_block_delta", "text_delta", t, "", "none", "none")
ThinkingDelta(t) == Frame("content_block_delta", "thinking_delta", "", t, "none", "none")
MessageDelta(r) == Frame("message_delta", "", "", "", r, "none")
LegacyFrame(t, r) == Frame("", "", t, "", "none", r)
OtherFrame(type) == Frame(type, "", "", "", "none", "none")

Frames ==
    { TextDelta("a"), TextDelta("c"), TextDelta(""), ThinkingDelta("t"),
      ThinkingDelta(""),
      Frame("content_block_delta", "signature_delta", "", "", "none", "none"),
      MessageDelta("end_turn"), MessageDelta("max_tokens"), MessageDelta("none"),
      LegacyFrame("b", "none"), LegacyFrame("b", "end_turn"), LegacyFrame("", "end_turn"),
      OtherFrame("ping") }

\* An SSE frame: the [DONE] sentinel, or a JSON chunk with the one field of
\* its delta ("content", "thinking", "text" or "none" for {}), that field's
\* text and its finish_reason ("null" for None).
DONE == [done |-> TRUE, field |-> "none", text |-> "", finish |-> "null"]
Chunk(field, text, finish) ==
    [done |-> FALSE, field |-> field, text |-> text, finish |-> finish]

ChatFinishReason_Raw(stop_reason) == stop_reason

\* finish_reason = 'stop' if stop_reason == 'end_turn' else stop_reason
ChatFinishReason(stop_reason) ==
    IF stop_reason = "end_turn" THEN "stop" ELSE stop_reason

\* finish_reason = stop_reason if stop_reason else None
LegacyFinishReason(stop_reason) ==
    IF stop_reason # "none" THEN stop_reason ELSE "null"

ChatTranslate_EmptyChunks(f) ==
    IF f.type = "content_block_delta" THEN
        IF f.dtype = "thinking_delta" THEN <<Chunk("thinking", f.thinking, "null")>>
        ELSE IF f.dtype = "text_delta" THEN <<Chunk("content", f.text, "null")>>
        ELSE <<>>
    ELSE IF f.type = "message_delta" THEN
        IF f.dstop # "none"
          THEN <<Chunk("none", "", ChatFinishReason(f.dstop)), DONE>>
          ELSE <<>>
    ELSE IF f.type = "" THEN
        (IF f.text # ""
           THEN <<Chunk("content", f.text, LegacyFinishReason(f.stop))>>
           ELSE <<>>)
        \o (IF f.stop # "none" THEN <<DONE>> ELSE <<>>)
    ELSE <<>>

ChatTranslate_UnknownEnds(f) ==
    IF f.type = "content_block_delta" THEN
        IF f.dtype = "thinking_delta" THEN
            IF f.thinking # "" THEN <<Chunk("thinking", f.thinking, "null")>> ELSE <<>>
        ELSE IF f.dtype = "text_delta" THEN
            IF f.text # "" THEN <<Chunk("content", f.text, "null")>> ELSE <<>>
        ELSE <<>>
    ELSE IF f.type = "message_delta" THEN
        IF f.dstop # "none"
          THEN <<Chunk("none", "", ChatFinishReason(f.dstop)), DONE>>
          ELSE <<>>
    ELSE IF f.type = "" THEN
        (IF f.text # ""
           THEN <<Chunk("content", f.text, LegacyFinishReason(f.stop))>>
           ELSE <<>>)
        \o (IF f.stop # "none" THEN <<DONE>> ELSE <<>>)
    ELSE <<DONE>>

\* chat_completions.generate_stream: what the body of the for loop yields for
\* one frame.
ChatTranslate(f) ==
    IF f.type = "content_block_delta" THEN
        IF f.dtype = "thinking_delta" THEN
            IF f.thinking # "" THEN <<Chunk("thinking", f.thinking, "null")>> ELSE <<>>
        ELSE IF f.dtype = "text_delta" THEN
            IF f.text # "" THEN <<Chunk("content", f.text, "null")>> ELSE <<>>
        ELSE <<>>
    ELSE IF f.type = "message_delta" THEN
        IF f.dstop # "none"
          THEN <<Chunk("none", "", ChatFinishReason(f.dstop)), DONE>>
          ELSE <<>>
    ELSE IF f.type = "" THEN
        (IF f.text # ""
           THEN <<Chunk("content", f.text, LegacyFinishReason(f.stop))>>
           ELSE <<>>)
        \o (IF f.stop # "none" THEN <<DONE>> ELSE <<>>)
    ELSE <<>>

\* completions.generate_stream: what the body of the for loop yields for one
\* frame; it reads delta.text and the top-level stop_reason only.
ComplTranslate(f) ==
    IF f.text # ""
      THEN <<Chunk("text", f.text, LegacyFinishReason(f.stop))>>
      ELSE <<>>

\* completions.generate_stream: if stop_reason: break
ComplBreaks(f) == f.stop # "none"

StreamIdle == spc = "idle" /\ sendpoint = "none" /\ inp = <<>> /\ out = <<>>

ChatPull_NewestFirst(f) ==
    /\ spc = "streaming" /\ sendpoint = "chat"
    /\ Len(inp) < MaxFrames
    /\ inp' = Append(inp, f)
    /\ out' = ChatTranslate(f) \o out
    /\ UNCHANGED <<spc, sendpoint, retryVars, handlerVars>>

\* One iteration of chat_completions.generate_stream's for loop.
ChatPull(f) ==
    /\ spc = "streaming" /\ sendpoint = "chat"
    /\ Len(inp) < MaxFrames
    /\ inp' = Append(inp, f)
    /\ out' = out \o ChatTranslate(f)
    /\ UNCHANGED <<spc, sendpoint, retryVars, handlerVars>>

\* One iteration of completions.generate_stream's for loop.
ComplPull(f) ==
    /\ spc = "streaming" /\ sendpoint = "completions"
    /\ Len(inp) < MaxFrames
    /\ inp' = Append(inp, f)
    /\ out' = out \o ComplTranslate(f)
    /\ spc' = IF ComplBreaks(f) THEN "ended" ELSE "streaming"
    /\ UNCHANGED <<sendpoint, retryVars, handlerVars>>

\* response['body'] is exhausted: the for loop and the generator end.
StreamExhausted ==
    /\ spc = "streaming"
    /\ spc' = "ended"
    /\ UNCHANGED <<sendpoint, inp, out, retryVars, handlerVars>>

StreamFails_Reinvoke ==
    /\ spc = "streaming"
    /\ spc' = "failed"
    /\ rpc' = "Attempting"
    /\ UNCHANGED <<sendpoint, inp, out, retries, calls, hist, sleeps, jitters,
                   returned, raised, handlerVars>>

\* Iterating response['body'] raises: the exception leaves the generator, no
\* handler catches it and the response ends where it is.
StreamFails ==
    /\ spc = "streaming"
    /\ spc' = "failed"
    /\ UNCHANGED <<sendpoint, inp, out, retryVars, handlerVars>>

StreamNext ==
    \/ \E f \in Frames : ChatPull(f)
    \/ \E f \in Frames : ComplPull(f)
    \/ StreamExhausted

(***************************************************************************)
(* Client requests                                                         *)
(***************************************************************************)
\* A JSON value of the request: its kind and, for a number, its value.
JAbsent == [t |-> "absent", v |-> 0]
JInt(n) == [t |-> "int", v |-> n]
JStr == [t |-> "str", v |-> 0]              \* a non-empty string
JFalse == [t |-> "false", v |-> 0]
JTrue == [t |-> "true", v |-> 0]
JEmptyObj == [t |-> "emptyobj", v |-> 0]    \* {}
JObj(budget) == [t |-> "obj", v |-> budget] \* {"budget_tokens": budget}

\* bool(x) of Python for the values above
Truthy(j) ==
    \/ j.t = "int" /\ j.v # 0
    \/ j.t \in {"str", "true", "obj"}

ThinkingAlias == "claude-3-7-sonnet-thinking"

\* MODEL_MAPPING, in the order of the dict literal
MODEL_MAPPING ==
    << <<"claude-3-7-sonnet", "us.anthropic.claude-3-7-sonnet-20250219-v1:0">>,
       <<"claude-3-7-sonnet-thinking", "us.anthropic.claude-3-7-sonnet-20250219-v1:0">>,
       <<"claude-3-opus", "anthropic.claude-3-opus-20240229-v1:0">>,
       <<"claude-3-5-sonnet", "anthropic.claude-3-5-sonnet-20240620-v1:0">>,
       <<"claude-3-sonnet", "anthropic.claude-3-sonnet-20240229-v1:0">>,
       <<"claude-3-haiku", "anthropic.claude-3-haiku-20240307-v1:0">>,
       <<"claude-2", "anthropic.claude-v2:1">>,
       <<"claude-instant", "anthropic.claude-instant-v1">> >>

DEFAULT_MODEL_ID == "us.anthropic.claude-3-7-sonnet-20250219-v1:0"

\* MODEL_MAPPING.get(model_name, DEFAULT_MODEL_ID)
ModelId(model_name) ==
    IF \E i \in 1 .. Len(MODEL_MAPPING) : MODEL_MAPPING[i][1] = model_name
      THEN MODEL_MAPPING[CHOOSE i \in 1 .. Len(MODEL_MAPPING) :
                             MODEL_MAPPING[i][1] = model_name][2]
      ELSE DEFAULT_MODEL_ID

ReverseLookup_LastAlias(model_id) ==
    LET hits == {i \in 1 .. Len(MODEL_MAPPING) : MODEL_MAPPING[i][2] = model_id}
    IN  IF hits = {} THEN ""
        ELSE MODEL_MAPPING[CHOOSE i \in hits : \A k \in hits : i >= k][1]

\* next((k for k, v in MODEL_MAPPING.items() if v == model_id), '')
ReverseLookup(model_id) ==
    LET hits == {i \in 1 .. Len(MODEL_MAPPING) : MODEL_MAPPING[i][2] = model_id}
    IN  IF hits = {} THEN ""
        ELSE MODEL_MAPPING[CHOOSE i \in hits : \A k \in hits : i <= k][1]

\* 'claude-3-7' in model_name, over the aliases a request of the model names
Claude37Names == {"claude-3-7-sonnet", "claude-3-7-sonnet-thinking"}
IsClaude37(model_name) == model_name \in Claude37Names

\* int(x / d) and int(x * 0.8): Python truncates towards zero
TruncDiv(x, d) == IF x >= 0 THEN x \div d ELSE -((-x) \div d)
Int08(x) == TruncDiv(x * 4, 5)

\* content.strip() of the strings the model uses
Strip(c) == IF c \in {"", " "} THEN "" ELSE c

\* the logging functions cut a string longer than 200 characters
LogLimit == 200

RECURSIVE Repeat(_, _)
Repeat(c, n) == IF n = 0 THEN "" ELSE c \o Repeat(c, n - 1)

\* a string of LogLimit + 1 characters
LongText == Repeat("x", LogLimit + 1)

\* content[:200] + '... [...]' (the marker's text is written in ASCII here)
Truncated(c) == SubSeq(c, 1, LogLimit) \o "... [truncated]"

\* a stop value of the request: absent, one string, or a list of strings
StopAbsent == [t |-> "absent", items |-> <<>>]
StopStr(x) == [t |-> "str", items |-> <<x>>]
StopList(xs) == [t |-> "list", items |-> xs]

Models == {"claude-3-7-sonnet", "claude-3-7-sonnet-thinking", "claude-3-opus"}
ThinkingValues == {JAbsent, JFalse, JTrue, JEmptyObj, JObj(2048)}
MaxTokensValues ==
    {JAbsent, JInt(-5), JInt(0), JInt(1000), JInt(1024), JInt(2000), JInt(10000),
     JInt(200000)}
TopPValues == {"absent", "0.9"}
TemperatureValues == {"absent", "0.5"}
StopValues == {StopAbsent, StopStr("END"), StopList(<<"END", "STOP">>)}

Msg(role, text) == [role |-> role, content |-> text]

\* the prompt of a completions request, the messages of a chat request
Prompts(ep) == IF ep = "completions" THEN {"hi", " "} ELSE {""}
MessageLists(ep) ==
    IF ep = "chat"
      THEN { << Msg("user", "hi") >>, << Msg("user", " ") >>, << Msg("user", LongText) >> }
      ELSE { <<>> }

\* Requests that vary what decides the thinking config, and requests that
\* vary the fields that are passed through.
RequestsFor(ep) ==
    [ model : Models,
      thinking : ThinkingValues,
      max_tokens : MaxTokensValues,
      max_thinking_tokens : {JAbsent, JInt(1500)},
      thinking_max_tokens : {JAbsent, JInt(5000)},
      max_thinking_length : {JAbsent, JInt(500), JStr},
      top_p : TopPValues,
      temperature : {"absent"},
      stop : {StopAbsent},
      stream : {FALSE},
      prompt : Prompts(ep),
      messages : MessageLists(ep) ]
    \cup
    [ model : Models,
      thinking : ThinkingValues,
      max_tokens : {JAbsent, JInt(1000), JInt(200000)},
      max_thinking_tokens : {JAbsent},
      thinking_max_tokens : {JAbsent},
      max_thinking_length : {JAbsent},
      top_p : TopPValues,
      temperature : TemperatureValues,
      stop : StopValues,
      stream : {FALSE},
      prompt : Prompts(ep),
      messages : MessageLists(ep) ]

\* A request that gives only the model, thinking, stream and its text
Request(model, thinking, stream, prompt, messages) ==
    [model |-> model, thinking |-> thinking, max_tokens |-> JAbsent,
     max_thinking_tokens |-> JAbsent, thinking_max_tokens |-> JAbsent,
     max_thinking_length |-> JAbsent, top_p |-> "absent",
     temperature |-> "absent", stop |-> StopAbsent, stream |-> stream,
     prompt |-> prompt, messages |-> messages]

MaxMessages == 3

\* chat conversations of up to MaxMessages messages
MessageValues ==
    {Msg(role, text) : role \in {"user", "assistant", "system"},
                       text \in {"hi", "", " ", LongText}}
Conversations == UNION {[1 .. n -> MessageValues] : n \in 0 .. MaxMessages}

ConversationRequests ==
    {Request("claude-3-7-sonnet", JAbsent, FALSE, "", msgs) : msgs \in Conversations}

\* requests whose backend call succeeds: every alias and thinking value
AnsweredRequests(ep) ==
    {Request(m, th, FALSE,
             IF ep = "completions" THEN "hi" ELSE "",
             IF ep = "chat" THEN << Msg("user", "hi") >> ELSE <<>>) :
        m \in Models, th \in {JAbsent, JFalse, JTrue}}

\* valid and invalid requests, streaming or not
PipelineRequests(ep) ==
    IF ep = "completions"
      THEN {Request(m, JAbsent, st, pr, <<>>) :
              m \in {"claude-3-7-sonnet", "claude-3-7-sonnet-thinking"},
              st \in BOOLEAN, pr \in {"hi", "", " "}}
      ELSE {Request(m, JAbsent, st, "", msgs) :
              m \in {"claude-3-7-sonnet", "claude-3-7-sonnet-thinking"},
              st \in BOOLEAN,
              msgs \in { << Msg("user", "hi") >>, << Msg("user", " ") >>, <<>>,
                         << Msg("assistant", "hi") >>,
                         << Msg("user", ""), Msg("assistant", "") >> }}

(***************************************************************************)
(* completions / chat_completions: from the request to the dispatched body *)
(***************************************************************************)
\* The JSON body given to the backend: top_p is "absent" when the key is
\* missing, budget_tokens is read only when has_thinking.
Body(max_tokens, top_p, has_thinking, budget_tokens, messages, temperature, stop) ==
    [max_tokens |-> max_tokens, top_p |-> top_p, has_thinking |-> has_thinking,
     budget_tokens |-> budget_tokens, messages |-> messages,
     temperature |-> temperature, stop_sequences |-> stop]

NoBody == Body(0, "absent", FALSE, 0, <<>>, "absent", StopAbsent)

\* log_request_info: in DEBUG_MODE safe_data is a shallow copy of the request,
\* so cutting safe_data['messages'][i]['content'] cuts the request's own
\* message; the prompt is replaced in the copy only.
LogRequestInfo(r) ==
    IF debug
      THEN [r EXCEPT !.messages =
               [i \in DOMAIN r.messages |->
                  IF Len(r.messages[i].content) > LogLimit
                    THEN [r.messages[i] EXCEPT !.content = Truncated(@)]
                    ELSE r.messages[i]]]
      ELSE r

\* use_thinking_mode = model_name == 'claude-3-7-sonnet-thinking'
\* if use_thinking_mode and req.get('thinking') is False: use_thinking_mode = False
\* if req.get('thinking', False): use_thinking_mode = True
UseThinkingMode(r) ==
    LET byAlias == r.model = ThinkingAlias
        afterFalse == IF byAlias /\ r.thinking = JFalse THEN FALSE ELSE byAlias
    IN  IF Truthy(r.thinking) THEN TRUE ELSE afterFalse

\* max_tokens = req.get('max_tokens', DEFAULT_MAX_TOKENS), capped at MAX_OUTPUT_TOKENS
HandlerMaxTokens(r) ==
    LET mt == IF r.max_tokens.t = "absent" THEN DEFAULT_MAX_TOKENS ELSE r.max_tokens.v
    IN  IF mt > MAX_OUTPUT_TOKENS THEN MAX_OUTPUT_TOKENS ELSE mt

\* the if / elif chain over max_thinking_tokens, thinking_max_tokens, max_thinking_length
BudgetHint(r) ==
    IF Truthy(r.max_thinking_tokens) THEN r.max_thinking_tokens
    ELSE IF Truthy(r.thinking_max_tokens) THEN r.thinking_max_tokens
    ELSE IF Truthy(r.max_thinking_length) THEN r.max_thinking_length
    ELSE JAbsent

\* max(1024, thinking_budget) raises TypeError for a string
BudgetRaises(r) == BudgetHint(r).t = "str"

ThinkingBudget_EightyPercentDefault(r) ==
    LET mt == HandlerMaxTokens(r)
        hint == BudgetHint(r)
        first == IF hint.t = "int" THEN hint.v ELSE Min(Int08(mt), mt - 1)
        atLeast == Max(1024, first)
    IN  IF atLeast >= mt THEN Int08(mt) ELSE atLeast

\* thinking_budget as the handler computes it (BudgetHint an int or absent)
ThinkingBudget(r) ==
    LET mt == HandlerMaxTokens(r)
        hint == BudgetHint(r)
        first == IF hint.t = "int" THEN hint.v ELSE Max(4000, TruncDiv(mt, 2))
        atLeast == Max(1024, first)
    IN  IF atLeast >= mt THEN Int08(mt) ELSE atLeast

\* has_content of one message (string content)
HasContent(msg) == Strip(msg.content) # ""

\* filtered_messages of chat_completions
RECURSIVE FilterFrom(_, _)
FilterFrom(messages, i) ==
    IF i > Len(messages) THEN <<>>
    ELSE (IF HasContent(messages[i])
             \/ (i = Len(messages) /\ messages[i].role = "assistant")
            THEN <<messages[i]>> ELSE <<>>) \o FilterFrom(messages, i + 1)

FilteredMessages(r) == FilterFrom(r.messages, 1)

Rejected_NoStrip(ep, r) ==
    IF ep = "completions"
      THEN r.prompt = ""
      ELSE LET fm == FilteredMessages(r)
           IN  fm = <<>> \/ ~ \E i \in 1 .. Len(fm) : fm[i].role = "user"

\* the request is answered 400 before anything is built
Rejected(ep, r) ==
    IF ep = "completions"
      THEN Strip(r.prompt) = ""
      ELSE LET fm == FilteredMessages(r)
           IN  fm = <<>> \/ ~ \E i \in 1 .. Len(fm) : fm[i].role = "user"

\* bed_params as the handler has built it when it calls invoke_with_retry
BedParams(ep, r) ==
    LET use == UseThinkingMode(r)
        mt == HandlerMaxTokens(r)
        top == IF use THEN "absent"
               ELSE IF r.top_p = "absent" THEN "1.0" ELSE r.top_p
        think == IsClaude37(r.model) /\ use
        msgs == IF ep = "completions"
                  THEN << [role |-> "user", content |-> r.prompt] >>
                  ELSE FilteredMessages(r)
        \* req.get('temperature', 1.0)
        temp == IF r.temperature = "absent" THEN "1.0" ELSE r.temperature
        \* completions: stop_sequences = stop; chat: a list, or [stop]
        stop == IF r.stop.t = "absent" THEN StopAbsent
                ELSE IF ep = "completions" THEN r.stop
                ELSE StopList(r.stop.items)
    IN  Body(mt, top, think, IF think THEN ThinkingBudget(r) ELSE 0, msgs, temp, stop)

\* validate_bedrock_request on a body built by a handler: thinking, when
\* present, is {"type": "enabled", "budget_tokens": <int>}, max_tokens is an
\* int, and there is no 'model' key.
ValidateBedrockRequest(params, model_name) ==
    LET model_is_thinking == model_name = ThinkingAlias
        is_thinking_enabled == params.has_thinking
        \* if budget < 1024: budget = 1024
        b1 == IF params.has_thinking /\ params.budget_tokens < 1024
                THEN 1024 ELSE params.budget_tokens
        \* (is_thinking_enabled or model_is_thinking) and max_tokens < 1024
        mt1 == IF (is_thinking_enabled \/ model_is_thinking) /\ params.max_tokens < 1024
                 THEN 1024 ELSE params.max_tokens
        \* model_is_thinking and 'thinking' not in validated_params
        auto == model_is_thinking /\ ~ params.has_thinking
        mt2 == IF auto /\ mt1 < 1024 THEN 1024 ELSE mt1
        has2 == params.has_thinking \/ auto
        b2 == IF auto THEN Max(1024, Min(Int08(mt2), mt2 - 1)) ELSE b1
        \* if max_tokens <= thinking_budget: max_tokens = thinking_budget + 1
        mt3 == IF has2 /\ mt2 <= b2 THEN b2 + 1 ELSE mt2
        \* del validated_params['top_p']
        top3 == IF has2 THEN "absent" ELSE params.top_p
    IN  [params EXCEPT !.max_tokens = mt3, !.top_p = top3, !.has_thinking = has2,
                       !.budget_tokens = IF has2 THEN b2 ELSE 0]

\* The DEBUG_MODE block at the head of invoke_with_retry: the body is parsed,
\* validated under the reverse-looked-up alias, and written back.
InvokeBody(params, model_id) ==
    IF debug THEN ValidateBedrockRequest(params, ReverseLookup(model_id)) ELSE params

(***************************************************************************)
(* Backend payloads and the handlers' responses                            *)
(***************************************************************************)
MaxItems == 2

\* One element of a content list: its type tag and its 'text' and 'thinking'
\* keys (an absent key reads as '' through item.get(key, '')).
TextItem(s) == [type |-> "text", text |-> s, thinking |-> ""]
ThinkingItem(s) == [type |-> "thinking", text |-> "", thinking |-> s]
OtherItem == [type |-> "tool_use", text |-> "", thinking |-> ""]
Items == {TextItem("a"), TextItem("b"), ThinkingItem("p"), ThinkingItem("q"), OtherItem}

\* bed_response['content']: absent, null, a string, an object or a list
ContentAbsent == [t |-> "absent", s |-> "", items |-> <<>>]
ContentNull == [t |-> "null", s |-> "", items |-> <<>>]
ContentStr(x) == [t |-> "str", s |-> x, items |-> <<>>]
ContentObj == [t |-> "obj", s |-> "", items |-> <<>>]    \* {"k": "v"}
ContentList(xs) == [t |-> "list", s |-> "", items |-> xs]

ItemLists == UNION {[1 .. n -> Items] : n \in 0 .. MaxItems}

ContentValues ==
    {ContentAbsent, ContentNull, ContentStr(""), ContentStr("s"), ContentObj}
      \cup {ContentList(xs) : xs \in ItemLists}

\* bed_response['thinking']: absent, or an object with a 'text'
TopThinkingAbsent == [t |-> "absent", text |-> ""]
TopThinking(x) == [t |-> "obj", text |-> x]

\* bed_response; completion is read with .get('completion', ''), so '' stands
\* for an absent and for an empty completion; stop_reason "" is absent.
Payload(c, completion, thinking, stop_reason) ==
    [content |-> c, completion |-> completion, thinking |-> thinking,
     stop_reason |-> stop_reason]

NoPayload == Payload(ContentAbsent, "", TopThinkingAbsent, "")

Payloads ==
    {Payload(c, k, t, "end_turn") :
        c \in ContentValues, k \in {"", "c", LongText},
        t \in {TopThinkingAbsent, TopThinking("t"), TopThinking("")}}

\* str(content_obj)
PyStr(c) ==
    IF c.t = "str" THEN c.s
    ELSE IF c.t = "obj" THEN "{'k': 'v'}"
    ELSE IF c.t = "null" THEN "None"
    ELSE "[...]"

\* truth value of content_obj
ContentTruthy(c) ==
    \/ c.t = "str" /\ c.s # ""
    \/ c.t = "obj"
    \/ c.t = "list" /\ c.items # <<>>

\* for item in content: if item.get('type') == 'text': content += item.get('text', '')
RECURSIVE ConcatText(_)
ConcatText(xs) ==
    IF xs = <<>> THEN ""
    ELSE (IF Head(xs).type = "text" THEN Head(xs).text ELSE "") \o ConcatText(Tail(xs))

ExtractContent_CompletionFirst(p) ==
    IF p.completion # "" THEN p.completion
    ELSE IF p.content.t = "list" THEN ConcatText(p.content.items)
    ELSE IF ContentTruthy(p.content) THEN PyStr(p.content) ELSE ""

\* the text extraction of both handlers
ExtractContent(p) ==
    IF p.content.t = "list"
      THEN ConcatText(p.content.items)
    ELSE IF p.completion # ""
      THEN p.completion
    ELSE IF p.content.t = "list" /\ Len(p.content.items) > 0
      THEN p.content.items[1].text
    ELSE IF ContentTruthy(p.content) THEN PyStr(p.content) ELSE ""

\* thinking_blocks
RECURSIVE ThinkingBlocks(_)
ThinkingBlocks(xs) ==
    IF xs = <<>> THEN <<>>
    ELSE (IF Head(xs).type = "thinking" THEN <<Head(xs).thinking>> ELSE <<>>)
           \o ThinkingBlocks(Tail(xs))

\* ' '.join(blocks)
RECURSIVE JoinSpace(_)
JoinSpace(blocks) ==
    IF blocks = <<>> THEN ""
    ELSE IF Len(blocks) = 1 THEN blocks[1]
    ELSE blocks[1] \o " " \o JoinSpace(Tail(blocks))

\* thinking_content after the top-level check
TopThinkingText(p) == IF p.thinking.t = "obj" THEN p.thinking.text ELSE ""

\* `for item in bed_response.get('content', [])` with item.get(...) raises when
\* content is null (not iterable) or has elements that are no objects (the
\* characters of a string, the keys of an object)
ThinkingRaises(p) ==
    /\ TopThinkingText(p) = ""
    /\ \/ p.content.t = "null"
       \/ p.content.t = "obj"
       \/ p.content.t = "str" /\ p.content.s # ""

\* the thinking extraction of both handlers, where it does not raise
ExtractThinking(p) ==
    IF TopThinkingText(p) # "" THEN TopThinkingText(p)
    ELSE IF p.content.t = "list" THEN JoinSpace(ThinkingBlocks(p.content.items))
    ELSE ""

\* The handler's answer: a completion object (text is choices[0].text or
\* choices[0].message.content), an error body, or an event stream.
Response(kind, text, has_thinking, thinking, has_thinking_tokens, finish_reason) ==
    [kind |-> kind, text |-> text, has_thinking |-> has_thinking,
     thinking |-> thinking, has_thinking_tokens |-> has_thinking_tokens,
     finish_reason |-> finish_reason]

NoResponse == Response("none", "", FALSE, "", FALSE, "")
ErrorResponse == Response("error", "", FALSE, "", FALSE, "")
StreamingResponse == Response("stream", "", FALSE, "", FALSE, "")

\* openai_response as built from the extracted texts
OpenAIResponse(c, th, stop_reason) ==
    Response("completion", c, th # "", th, th # "",
             IF stop_reason = "" THEN "stop" ELSE stop_reason)

\* log_response_info on a completion object: in DEBUG_MODE the texts above
\* 200 characters are cut in the shallow copy, whose choices are the
\* response's own
LogResponseInfo(resp) ==
    IF debug
      THEN [resp EXCEPT
              !.text = IF Len(@) > LogLimit THEN Truncated(@) ELSE @,
              !.thinking = IF resp.has_thinking /\ Len(@) > LogLimit
                             THEN Truncated(@) ELSE @]
      ELSE resp

\* nothing received from the backend and nothing returned yet
ResponseIdle ==
    /\ bed_response = NoPayload /\ content = "" /\ thinking_content = ""
    /\ openai_response = NoResponse

HandlerIdle ==
    /\ hpc = "idle" /\ endpoint = "none" /\ debug = FALSE
    /\ req = [model |-> "none"] /\ body = NoBody
    /\ ResponseIdle

\* One request through a POST handler, up to the backend call.
Handle(ep) ==
    /\ hpc = "start" /\ endpoint = ep
    /\ LET r == LogRequestInfo(req)
       IN  IF Rejected(ep, r)
             THEN /\ hpc' = "http400" /\ body' = body
                  /\ openai_response' = ErrorResponse
           ELSE IF UseThinkingMode(r) /\ IsClaude37(r.model) /\ BudgetRaises(r)
             THEN /\ hpc' = "http500" /\ body' = body
                  /\ openai_response' = ErrorResponse
           ELSE /\ hpc' = "dispatched"
                /\ body' = InvokeBody(BedParams(ep, r), ModelId(r.model))
                /\ openai_response' = openai_response
    /\ UNCHANGED <<endpoint, debug, req, bed_response, content, thinking_content,
                   retryVars, streamVars>>

Completions == Handle("completions")
ChatCompletions == Handle("chat")

HandlerNext == Completions \/ ChatCompletions

\* The handler calls invoke_with_retry with the body.
InvokeStart ==
    /\ hpc = "dispatched" /\ RetryIdle
    /\ rpc' = "Attempting"
    /\ UNCHANGED <<retries, calls, hist, sleeps, jitters, returned, raised,
                   handlerVars, streamVars>>

\* invoke_with_retry has returned the response of a non-streaming call: the
\* handler parses payload p, extracts the texts, builds, logs and returns the
\* completion object; an exception on the way is answered by the outer except.
Respond(ep, p) ==
    /\ hpc = "dispatched" /\ endpoint = ep /\ rpc = "Success" /\ ~ req.stream
    /\ bed_response' = p
    /\ content' = ExtractContent(p)
    /\ LET attempted == IsClaude37(req.model) /\ UseThinkingMode(req)
       IN  IF attempted /\ ThinkingRaises(p)
             THEN /\ hpc' = "http500"
                  /\ thinking_content' = ""
                  /\ openai_response' = ErrorResponse
             ELSE /\ hpc' = "http200"
                  /\ thinking_content' = IF attempted THEN ExtractThinking(p) ELSE ""
                  /\ openai_response' =
                       LogResponseInfo(OpenAIResponse(content', thinking_content',
                                                      p.stop_reason))
    /\ UNCHANGED <<endpoint, debug, req, body, retryVars, streamVars>>

CompletionsRespond(p) == Respond("completions", p)
ChatRespond(p) == Respond("chat", p)

\* invoke_with_retry has returned the event stream of a streaming call:
\* return Response(generate_stream(), mimetype='text/event-stream')
ReturnStream ==
    /\ hpc = "dispatched" /\ rpc = "Success" /\ req.stream
    /\ hpc' = "http200stream"
    /\ openai_response' = StreamingResponse
    /\ UNCHANGED <<endpoint, debug, req, body, bed_response, content,
                   thinking_content, retryVars, streamVars>>

HandleException_EmptyCompletion ==
    /\ hpc = "dispatched" /\ rpc = "Failed"
    /\ hpc' = "http200"
    /\ openai_response' = OpenAIResponse("", "", "")
    /\ UNCHANGED <<endpoint, debug, req, body, bed_response, content,
                   thinking_content, retryVars, streamVars>>

\* invoke_with_retry has raised: the except clause answers 500 with the error
HandleException ==
    /\ hpc = "dispatched" /\ rpc = "Failed"
    /\ hpc' = "http500"
    /\ openai_response' = ErrorResponse
    /\ UNCHANGED <<endpoint, debug, req, body, bed_response, content,
                   thinking_content, retryVars, streamVars>>

\* The server starts to iterate the generator the handler returned.
StartStream ==
    /\ hpc = "http200stream" /\ spc = "idle"
    /\ spc' = "streaming" /\ sendpoint' = endpoint
    /\ UNCHANGED <<inp, out, retryVars, handlerVars>>

\* the frames the composed streaming request receives
FewFrames == {TextDelta("a"), LegacyFrame("b", "end_turn")}

StreamingRequests(ep) ==
    {Request("claude-3-7-sonnet", JAbsent, TRUE,
             IF ep = "completions" THEN "hi" ELSE "",
             IF ep = "chat" THEN << Msg("user", "hi") >> ELSE <<>>)}

StreamingNext ==
    \/ HandlerNext
    \/ InvokeStart
    \/ RetryNext
    \/ ReturnStream
    \/ HandleException
    \/ StartStream
    \/ \E f \in FewFrames : ChatPull(f)
    \/ \E f \in FewFrames : ComplPull(f)
    \/ StreamExhausted
    \/ StreamFails

\* the payloads the composed pipeline answers with
PipelinePayloads ==
    {Payload(ContentList(<< TextItem("a") >>), "", TopThinkingAbsent, "end_turn"),
     Payload(ContentStr("s"), "", TopThinkingAbsent, "end_turn")}

ResponseNext ==
    \/ \E p \in Payloads : CompletionsRespond(p)
    \/ \E p \in Payloads : ChatRespond(p)

PipelineNext ==
    \/ HandlerNext
    \/ InvokeStart
    \/ RetryNext
    \/ \E p \in PipelinePayloads : CompletionsRespond(p)
    \/ \E p \in PipelinePayloads : ChatRespond(p)
    \/ ReturnStream
    \/ HandleException

(***************************************************************************)
(* Specifications                                                          *)
(***************************************************************************)
RetryInit == RetryStart /\ HandlerIdle /\ StreamIdle
RetrySpec == RetryInit /\ [][RetryNext]_vars

\* the loop keeps running: a call of func returns or raises, a sleep ends
RetryFairSpec == RetrySpec /\ WF_vars(RetryNext)

StreamInit ==
    /\ spc = "streaming" /\ sendpoint \in {"chat", "completions"}
    /\ inp = <<>> /\ out = <<>>
    /\ RetryIdle /\ HandlerIdle
StreamSpec == StreamInit /\ [][StreamNext]_vars

HandlerInit ==
    /\ hpc = "start" /\ endpoint \in {"completions", "chat"} /\ debug \in BOOLEAN
    /\ req \in RequestsFor(endpoint) /\ body = NoBody
    /\ ResponseIdle
    /\ RetryIdle /\ StreamIdle
HandlerSpec == HandlerInit /\ [][HandlerNext]_vars

\* chat_completions on conversations of several messages
ConversationInit ==
    /\ hpc = "start" /\ endpoint = "chat" /\ debug \in BOOLEAN
    /\ req \in ConversationRequests /\ body = NoBody
    /\ ResponseIdle
    /\ RetryIdle /\ StreamIdle
ConversationSpec == ConversationInit /\ [][ChatCompletions]_vars

\* the handlers from the return of a successful non-streaming backend call
ResponseInit ==
    /\ hpc = "dispatched" /\ endpoint \in {"completions", "chat"} /\ debug \in BOOLEAN
    /\ req \in AnsweredRequests(endpoint)
    /\ body = InvokeBody(BedParams(endpoint, LogRequestInfo(req)), ModelId(req.model))
    /\ ResponseIdle
    /\ rpc = "Success" /\ retries = 0 /\ calls = 1 /\ hist = << "ok" >>
    /\ sleeps = <<>> /\ jitters = <<>> /\ returned = 1 /\ raised = "none"
    /\ StreamIdle
ResponseSpec == ResponseInit /\ [][ResponseNext]_vars

\* one request from the handler's entry to its answer
PipelineInit ==
    /\ hpc = "start" /\ endpoint \in {"completions", "chat"} /\ debug \in BOOLEAN
    /\ req \in PipelineRequests(endpoint) /\ body = NoBody
    /\ ResponseIdle
    /\ RetryIdle /\ StreamIdle
PipelineSpec == PipelineInit /\ [][PipelineNext]_vars

\* one streaming request from the handler's entry to the end of its stream
StreamingInit ==
    /\ hpc = "start" /\ endpoint \in {"completions", "chat"} /\ debug = FALSE
    /\ req \in StreamingRequests(endpoint) /\ body = NoBody
    /\ ResponseIdle
    /\ RetryIdle /\ StreamIdle
StreamingSpec == StreamingInit /\ [][StreamingNext]_vars

Init == RetryInit \/ StreamInit \/ HandlerInit \/ ConversationInit \/ ResponseInit
          \/ PipelineInit \/ StreamingInit
Next == RetryNext \/ StreamNext \/ PipelineNext \/ ResponseNext \/ StreamingNext
Spec == Init /\ [][Next]_vars

(***************************************************************************)
(* Properties                                                              *)
(***************************************************************************)
AllThrottled == \A i \in DOMAIN hist : hist[i] = Throttling

IsStopMessageDelta(f) == f.type = "message_delta" /\ f.dstop # "none"

RECURSIVE ChatEmitted(_)
ChatEmitted(frames) ==
    IF frames = <<>> THEN <<>>
    ELSE ChatTranslate(Head(frames)) \o ChatEmitted(Tail(frames))

\* C1: every dispatched request in which reasoning is enabled (the thinking
\* alias with no thinking field, or a truthy thinking field) carries a
\* thinking config with 1024 <= budget_tokens < max_tokens, and no top_p.
C1_BudgetWithinBounds ==
    (hpc = "dispatched"
       /\ ((req.model = ThinkingAlias /\ req.thinking = JAbsent) \/ Truthy(req.thinking)))
    => /\ body.has_thinking
       /\ 1024 <= body.budget_tokens
       /\ body.budget_tokens < body.max_tokens
       /\ body.top_p = "absent"

\* C2 as stated: one call of invoke_with_retry calls the backend at most 5
\* times, a call that is not the last one ended in throttling, and a backend
\* that always throttles is called exactly 5 times before the error is raised.
C2_AtMostFiveCalls ==
    /\ calls <= 5
    /\ \A i \in 1 .. (Len(hist) - 1) : hist[i] = Throttling
    /\ (rpc = "Failed" /\ AllThrottled) => calls = 5

\* C2 amended: the backend is called at most MAX_RETRIES + 1 = 6 times (one
\* first attempt and at most 5 retries), a call that is not the last one ended
\* in throttling, and a backend that always throttles is called exactly 6
\* times before the error is raised.
C2_AtMostSixCalls ==
    /\ calls <= MAX_RETRIES + 1
    /\ calls = Len(hist)
    /\ \A i \in 1 .. (Len(hist) - 1) : hist[i] = Throttling
    /\ (rpc = "Failed" /\ AllThrottled) => (calls = 6 /\ raised = Throttling)

C2_Witness == rpc = "Failed" /\ AllThrottled /\ calls = MAX_RETRIES + 1

\* C3: when the chat stream has ended, the emitted sequence holds exactly one
\* [DONE] and no content or thinking chunk comes after it.
C3_ExactlyOneDone ==
    (sendpoint = "chat" /\ spc = "ended")
    => /\ Cardinality({i \in DOMAIN out : out[i] = DONE}) = 1
       /\ \A i, j \in DOMAIN out :
            (out[i] = DONE /\ j > i) => out[j].field \notin {"content", "thinking"}

C4_Pattern(frames) ==
    /\ Len(frames) >= 1
    /\ Last(frames) = MessageDelta("end_turn")
    /\ \A i \in 1 .. (Len(frames) - 1) :
         /\ frames[i].type = "content_block_delta"
         /\ frames[i].dtype = "text_delta"
         /\ frames[i].text # ""

\* C4: in the chat stream, N non-empty text_delta frames followed by one
\* message_delta with stop_reason end_turn give exactly N content chunks with
\* finish_reason null, in frame order, then one chunk with finish_reason
\* "stop", then one [DONE], and nothing else.
C4_TextThenStop ==
    (sendpoint = "chat" /\ C4_Pattern(inp))
    => out = [i \in 1 .. (Len(inp) - 1) |-> Chunk("content", inp[i].text, "null")]
             \o << Chunk("none", "", "stop"), DONE >>

C4_Witness ==
    /\ sendpoint = "chat" /\ spc = "ended"
    /\ inp = << TextDelta("a"), TextDelta("c"), TextDelta("a"), MessageDelta("end_turn") >>

\* C5: in the chat stream, a message_delta carrying a stop_reason yields the
\* finish chunk (end_turn mapped to stop) and [DONE] and ends the sequence:
\* the whole output is what came before that frame, the finish chunk and
\* [DONE], whatever frames arrive after it.
C5_StopEndsChatStream ==
    (sendpoint = "chat" /\ spc = "ended")
    => \A i \in DOMAIN inp :
         IsStopMessageDelta(inp[i])
         => out = ChatEmitted(SubSeq(inp, 1, i - 1))
                  \o << Chunk("none", "",
                              IF inp[i].dstop = "end_turn" THEN "stop" ELSE inp[i].dstop),
                        DONE >>

\* C6: in the completions stream, a message_delta carrying a stop_reason is
\* the last frame pulled, and the output ends with a chunk whose finish_reason
\* is the raw reason followed by [DONE].
C6_StopEndsComplStream ==
    (sendpoint = "completions" /\ spc = "ended")
    => \A i \in DOMAIN inp :
         IsStopMessageDelta(inp[i])
         => /\ i = Len(inp)
            /\ Len(out) >= 2
            /\ out[Len(out)] = DONE
            /\ out[Len(out) - 1].finish = inp[i].dstop

\* C7: throttled on the first and second attempt and served on the third,
\* invoke_with_retry has made 3 backend calls and 2 sleeps, one after each
\* throttled attempt, and returns the third call's response.
C7_TwoThrottlesThenSuccess ==
    (hist = << Throttling, Throttling, "ok" >>)
    => /\ rpc = "Success"
       /\ calls = 3
       /\ Len(sleeps) = 2
       /\ returned = 3
       /\ raised = "none"

C7_Witness == hist = << Throttling, Throttling, "ok" >> /\ rpc = "Success"

C8_Terminal(o, i) ==
    \/ o \in {OtherClientError, OtherException}
    \/ o = Throttling /\ i = MAX_RETRIES + 1

\* C8: an attempt that ends in a non-throttling error, or in throttling on
\* the last permitted attempt, is the last call: the error is raised to the
\* caller, no sleep follows it and no backend call follows it.
C8_ErrorsRaisedAtOnce ==
    \A i \in DOMAIN hist :
        C8_Terminal(hist[i], i)
        => /\ i = Len(hist)
           /\ rpc = "Failed"
           /\ raised = hist[i]
           /\ returned = 0
           /\ Len(sleeps) = i - 1

C8_Witness ==
    /\ rpc = "Failed" /\ raised = OtherClientError
    /\ hist = << Throttling, Throttling, OtherClientError >>

\* C9: the sleep before retry k is min(30, 2^k + j) seconds for the jitter j
\* in [0, 1) drawn for it: at most 30 seconds, within [2^k, 2^k + 1) whenever
\* 2^k + 1 <= 30, for every retry k = 0 .. MAX_RETRIES - 1.
C9_BackoffDelay ==
    /\ Len(sleeps) <= MAX_RETRIES
    /\ Len(jitters) = Len(sleeps)
    /\ \A i \in DOMAIN sleeps :
         LET k == i - 1
             j == jitters[i]
         IN  /\ 0 <= j /\ j < JitterDen
             /\ sleeps[i] = Min(30 * JitterDen, Pow2(k) * JitterDen + j)
             /\ sleeps[i] <= 30 * JitterDen
             /\ (Pow2(k) + 1 <= 30)
                  => (Pow2(k) * JitterDen <= sleeps[i]
                        /\ sleeps[i] < (Pow2(k) + 1) * JitterDen)

C9_Witness ==
    /\ Len(sleeps) = MAX_RETRIES
    /\ jitters[MAX_RETRIES] = JitterDen - 1 /\ jitters[1] = 0

\* the enablement order of C10
C10_Enabled(r) ==
    IF r.thinking = JFalse THEN FALSE
    ELSE IF r.thinking.t \in {"true", "emptyobj", "obj"} THEN TRUE
    ELSE r.model = ThinkingAlias

\* C10: the dispatched request carries a thinking config exactly when
\* reasoning is enabled by the order: thinking=false disables; else
\* thinking=true or any thinking object enables, for any alias; else the
\* thinking alias enables.
C10_EnablementOrder ==
    hpc = "dispatched" => (body.has_thinking <=> C10_Enabled(req))

\* the client's max_tokens: 4096 when absent
ClientMaxTokens(r) ==
    IF r.max_tokens.t = "absent" THEN 4096 ELSE r.max_tokens.v

\* the max_tokens the budget is computed against: the client's, at most 128000
CappedMaxTokens(r) ==
    IF ClientMaxTokens(r) > 128000 THEN 128000 ELSE ClientMaxTokens(r)

\* the first convenience field that is given, in the order
\* max_thinking_tokens, thinking_max_tokens, max_thinking_length
FirstHint(r) ==
    IF r.max_thinking_tokens # JAbsent THEN r.max_thinking_tokens
    ELSE IF r.thinking_max_tokens # JAbsent THEN r.thinking_max_tokens
    ELSE r.max_thinking_length

NoBudgetSupplied(r) == FirstHint(r) = JAbsent /\ r.thinking.t # "obj"

\* C11: a request with reasoning enabled that supplies a budget (a
\* convenience field, in the precedence above, else the thinking object's
\* budget) is never answered with an error: it is dispatched with a thinking
\* config, a value that is no integer counting as 4000, and a budget that is
\* within [1024, max_tokens) is dispatched as it is.
C11_SuppliedBudgetNeverFails ==
    (hpc \notin {"start", "http400"}
       /\ UseThinkingMode(req) /\ IsClaude37(req.model) /\ ~ NoBudgetSupplied(req))
    => /\ hpc = "dispatched"
       /\ body.has_thinking
       /\ LET src == IF FirstHint(req) # JAbsent THEN FirstHint(req) ELSE req.thinking
              raw == IF src.t = "str" THEN 4000 ELSE src.v
          IN  (1024 <= raw /\ raw < CappedMaxTokens(req)) => body.budget_tokens = raw

C13_MaxTokensRaisedTo1024 ==
    (hpc = "dispatched" /\ body.has_thinking
       /\ req.max_tokens.t = "int" /\ req.max_tokens.v >= 1 /\ req.max_tokens.v < 1024)
    => body.max_tokens = 1024

\* C14: with reasoning enabled, when the budget (the first convenience field
\* given, else the default), raised to at least 1024, is at least max_tokens,
\* the dispatched budget_tokens is floor(0.8 * max_tokens) and the dispatched
\* max_tokens is the client's.
C14_ClampToEightyPercent ==
    (hpc = "dispatched" /\ body.has_thinking /\ ClientMaxTokens(req) >= 1)
    => LET mt == CappedMaxTokens(req)
           raw == IF FirstHint(req).t = "int" THEN FirstHint(req).v
                  ELSE Max(4000, mt \div 2)
       IN  (Max(1024, raw) >= mt)
           => /\ body.budget_tokens = (mt * 4) \div 5
              /\ body.max_tokens = ClientMaxTokens(req)

\* what the client asked the backend to receive as messages
ClientMessages(ep, r) ==
    IF ep = "completions" THEN << Msg("user", r.prompt) >> ELSE r.messages

\* C15: with reasoning disabled the dispatched request has no thinking config
\* and carries the client's max_tokens (within the documented range, at most
\* 128000), temperature, top_p, messages and stop values unmodified.
C15_DisabledPassesThrough ==
    (hpc = "dispatched" /\ ~ UseThinkingMode(req))
    => /\ ~ body.has_thinking
       /\ body.max_tokens = CappedMaxTokens(req)
       /\ body.temperature = (IF req.temperature = "absent" THEN "1.0" ELSE req.temperature)
       /\ body.top_p = (IF req.top_p = "absent" THEN "1.0" ELSE req.top_p)
       /\ body.messages = ClientMessages(endpoint, req)
       /\ body.stop_sequences.items = req.stop.items

\* the texts of the 'text' elements among the first n elements, in order
RECURSIVE TextsUpTo(_, _)
TextsUpTo(xs, n) ==
    IF n = 0 THEN ""
    ELSE TextsUpTo(xs, n - 1) \o (IF xs[n].type = "text" THEN xs[n].text ELSE "")

\* C16: the text extracted from a backend payload is (1) for a content list
\* the concatenation, in order, of the text of its 'text' elements; (2) else
\* the legacy completion when it is not empty; (4) else the content value as a
\* string, and the empty text when content is absent, null or empty.  (Case
\* (3), a content list reached after (1), never applies.)  A text of at most
\* 200 characters is the text of the completion object returned.
C16_TextPrecedence ==
    (hpc \in {"http200", "http500"})
    => LET p == bed_response
       IN  /\ content =
                IF p.content.t = "list"
                  THEN TextsUpTo(p.content.items, Len(p.content.items))
                ELSE IF p.completion # "" THEN p.completion
                ELSE IF p.content.t = "str" THEN p.content.s
                ELSE IF p.content.t = "obj" THEN "{'k': 'v'}"
                ELSE ""
           /\ (hpc = "http200" /\ Len(content) <= LogLimit)
                => openai_response.kind = "completion" /\ openai_response.text = content

\* a content list with two text elements wins over a legacy completion
C16_Witness ==
    /\ hpc = "http200"
    /\ bed_response.content = ContentList(<< TextItem("a"), TextItem("b") >>)
    /\ bed_response.completion = "c"
    /\ content = "ab" /\ openai_response.text = "ab"

\* the 'thinking' texts among the first n elements, joined by one space
RECURSIVE ThinkingUpTo(_, _)
ThinkingUpTo(xs, n) ==
    IF n = 0 THEN ""
    ELSE LET before == ThinkingUpTo(xs, n - 1)
         IN  IF xs[n].type # "thinking" THEN before
             ELSE IF \E i \in 1 .. (n - 1) : xs[i].type = "thinking"
               THEN before \o " " \o xs[n].thinking
             ELSE xs[n].thinking

\* C17: for a request on a claude-3-7 alias with reasoning enabled the handler
\* answers with the extracted thinking: the text of the top-level thinking
\* object when it has one, else the texts of the content list's 'thinking'
\* elements joined by one space, else the empty text; for every other request
\* the completion object has no thinking field and no thinking_tokens.
C17_ThinkingExtraction ==
    (hpc # "dispatched")
    => /\ hpc = "http200"
       /\ LET p == bed_response
          IN  IF IsClaude37(req.model) /\ UseThinkingMode(req)
                THEN thinking_content =
                       IF p.thinking.t = "obj" /\ p.thinking.text # ""
                         THEN p.thinking.text
                       ELSE IF p.content.t = "list"
                         THEN ThinkingUpTo(p.content.items, Len(p.content.items))
                       ELSE ""
                ELSE /\ thinking_content = ""
                     /\ ~ openai_response.has_thinking
                     /\ ~ openai_response.has_thinking_tokens

NotBlank(text) == text \notin {"", " "}

\* the first n input messages that have content, and the n-th when it is the
\* last input message and an assistant message
RECURSIVE KeptUpTo(_, _)
KeptUpTo(msgs, n) ==
    IF n = 0 THEN <<>>
    ELSE KeptUpTo(msgs, n - 1) \o
           (IF NotBlank(msgs[n].content)
                 \/ (n = Len(msgs) /\ msgs[n].role = "assistant")
              THEN << msgs[n] >> ELSE <<>>)

\* C18: a chat request is answered 400 when its input has no user message
\* with (non-blank) content; otherwise the messages dispatched are the input
\* messages with content, plus the last one when it is an assistant message
\* without content, in their order and as the client sent them.
C18_MessagesSent ==
    (hpc # "start")
    => IF \E i \in DOMAIN req.messages :
            req.messages[i].role = "user" /\ NotBlank(req.messages[i].content)
         THEN /\ hpc = "dispatched"
              /\ body.messages = KeptUpTo(req.messages, Len(req.messages))
         ELSE hpc = "http400"

\* what fails validation: a prompt that is empty or blank, a conversation
\* without a user message that has content
Invalid(ep, r) ==
    IF ep = "completions"
      THEN ~ NotBlank(r.prompt)
      ELSE ~ \E i \in DOMAIN r.messages :
               r.messages[i].role = "user" /\ NotBlank(r.messages[i].content)

\* C19: a request that fails validation is answered 400 with an error body,
\* and in no state of its handling has the backend been called or
\* invoke_with_retry been entered.
C19_InvalidRejectedWithoutCall ==
    Invalid(endpoint, req)
    => /\ calls = 0 /\ hist = <<>> /\ rpc = "idle"
       /\ hpc \in {"start", "http400"}
       /\ hpc = "http400" => openai_response = ErrorResponse

C19_Witness ==
    /\ hpc = "http400" /\ endpoint = "completions" /\ req.prompt = " "
    /\ req.stream /\ calls = 0 /\ openai_response.kind = "error"

\* C20: once invoke_with_retry has failed, the handler's answer is 500 with
\* an error body, never a completion object or a stream; the handler answers
\* only when invoke_with_retry has ended; and a throttling error is raised to
\* it only when no retry is left.
C20_BackendFailureIs500 ==
    /\ (rpc = "Failed" /\ hpc # "dispatched")
         => hpc = "http500" /\ openai_response = ErrorResponse
    /\ (hpc \in {"http200", "http200stream"}) => rpc = "Success"
    /\ (hpc # "dispatched" /\ calls > 0) => rpc \in {"Success", "Failed"}
    /\ (raised = Throttling) => retries = MAX_RETRIES /\ AllThrottled

C20_Witness ==
    /\ hpc = "http500" /\ raised = Throttling /\ retries = MAX_RETRIES
    /\ calls = MAX_RETRIES + 1 /\ openai_response.kind = "error"

IsPrefix(a, b) == Len(a) <= Len(b) /\ SubSeq(b, 1, Len(a)) = a

\* C21: the backend is called only while nothing has been emitted and no
\* stream is open; every step keeps the frames already emitted; a failure of
\* the stream emits nothing, calls nothing and is final.
C21_NoRetryOnceStreaming ==
    [][ /\ (calls' # calls) => (out = <<>> /\ spc = "idle")
        /\ IsPrefix(out, out')
        /\ (spc = "streaming" /\ spc' = "failed")
             => (out' = out /\ calls' = calls /\ rpc' = rpc)
        /\ (spc = "failed") => (spc' = "failed" /\ out' = out /\ calls' = calls) ]_vars

\* a stream opened after one throttled call failed after two frames
C21_Witness ==
    /\ spc = "failed" /\ Len(out) >= 2 /\ calls = 2 /\ hist = << Throttling, "ok" >>

RECURSIVE ComplEmitted(_)
ComplEmitted(frames) ==
    IF frames = <<>> THEN <<>>
    ELSE ComplTranslate(Head(frames)) \o ComplEmitted(Tail(frames))

\* what the translator of the running endpoint yields for a frame sequence
Emitted(frames) ==
    IF sendpoint = "chat" THEN ChatEmitted(frames) ELSE ComplEmitted(frames)

\* C22: at every moment of a stream the frames emitted are the chunks of the
\* backend frames pulled so far, frame by frame in their arrival order: when
\* frame i+1 is pulled every chunk of frames 1..i is out, and nothing is held
\* back or moved.
C22_ArrivalOrder ==
    (spc # "idle") => out = Emitted(inp)

C22_Witness ==
    /\ sendpoint = "chat"
    /\ inp = << TextDelta("a"), ThinkingDelta("t"), TextDelta("c") >>
    /\ Len(out) = 3 /\ out[1].text = "a" /\ out[2].field = "thinking" /\ out[3].text = "c"

\* the frames a step has added to the output
NewOut == SubSeq(out', Len(out) + 1, Len(out'))

\* C23: in the chat translator the pull of a content_block_delta frame adds at
\* most one chunk: for thinking_delta a chunk with only the thinking field,
\* for text_delta a chunk with only the content field, none when that text is
\* empty; the chunk's finish_reason is null.
C23_ContentBlockDelta ==
    [][ (sendpoint = "chat" /\ Len(inp') = Len(inp) + 1
           /\ Last(inp').type = "content_block_delta")
        => LET f == Last(inp')
           IN  /\ IsPrefix(out, out')
               /\ Len(NewOut) <= 1
               /\ f.dtype = "thinking_delta" =>
                    NewOut = IF f.thinking = "" THEN <<>>
                             ELSE << [done |-> FALSE, field |-> "thinking",
                                      text |-> f.thinking, finish |-> "null"] >>
               /\ f.dtype = "text_delta" =>
                    NewOut = IF f.text = "" THEN <<>>
                             ELSE << [done |-> FALSE, field |-> "content",
                                      text |-> f.text, finish |-> "null"] >>
               /\ \A i \in DOMAIN NewOut : NewOut[i].finish = "null" ]_vars

C23_Witness ==
    /\ sendpoint = "chat" /\ Len(inp) = 2
    /\ inp[1] = ThinkingDelta("") /\ inp[2] = ThinkingDelta("t")
    /\ out = << Chunk("thinking", "t", "null") >>

\* C24: in both translators, when the frame pulled last is an untagged legacy
\* frame with a stop_reason, the output ends with a chunk reporting that
\* finish_reason (carrying the frame's text, if any) followed by [DONE].
C24_LegacyStop ==
    (spc # "idle" /\ inp # <<>> /\ Last(inp).type = "" /\ Last(inp).stop # "none")
    => /\ Len(out) >= 2
       /\ Last(out) = DONE
       /\ out[Len(out) - 1].finish = Last(inp).stop
       /\ Last(inp).text # "" => out[Len(out) - 1].text = Last(inp).text

\* a frame with a type tag other than content_block_delta and message_delta
IsOtherTagged(f) == f.type \notin {"content_block_delta", "message_delta", ""}

RECURSIVE WithoutOther(_)
WithoutOther(frames) ==
    IF frames = <<>> THEN <<>>
    ELSE (IF IsOtherTagged(Head(frames)) THEN <<>> ELSE << Head(frames) >>)
           \o WithoutOther(Tail(frames))

\* C25: the output for the frames pulled is the output for the same frames
\* with the other-tagged ones removed, and the pull of such a frame adds
\* nothing to the output and leaves the stream open.
C25_OtherFramesIgnored ==
    /\ [](spc # "idle" => out = Emitted(WithoutOther(inp)))
    /\ [][ (Len(inp') = Len(inp) + 1 /\ IsOtherTagged(Last(inp')))
             => (out' = out /\ spc' = "streaming") ]_vars

C25_Witness ==
    /\ sendpoint = "chat" /\ spc = "streaming"
    /\ inp = << TextDelta("a"), OtherFrame("ping"), TextDelta("c") >>
    /\ out = << Chunk("content", "a", "null"), Chunk("content", "c", "null") >>

\* C26: invoke_with_retry moves only along Attempting -> Success, Attempting
\* -> Retrying -> Attempting and Attempting -> Failed; a terminal state is
\* never left; it makes at most MAX_RETRIES + 1 calls and always reaches a
\* terminal state: Success with the response of the last call returned and
\* nothing raised, or Failed with the last error raised and nothing returned.
\* The loop condition holds whenever the loop is entered, so the function
\* never falls out of the loop and returns no response.
C26_StateMachine ==
    /\ [][ \/ <<rpc, rpc'>> \in { <<"Attempting", "Success">>, <<"Attempting", "Retrying">>,
                                  <<"Attempting", "Failed">>, <<"Retrying", "Attempting">> }
           \/ rpc' = rpc /\ rpc \in {"Attempting", "Retrying"} ]_vars
    /\ [](rpc = "Attempting" => retries <= MAX_RETRIES)
    /\ [](calls <= MAX_RETRIES + 1)
    /\ [](rpc = "Success"
            => returned = calls /\ raised = "none" /\ Last(hist) = "ok")
    /\ [](rpc = "Failed"
            => returned = 0 /\ raised # "none" /\ raised = Last(hist))
    /\ <>[](rpc \in {"Success", "Failed"})

C26_Witness ==
    /\ rpc = "Success" /\ calls = 3 /\ returned = 3 /\ retries = 2
    /\ hist = << Throttling, Throttling, "ok" >>

\* C27: the max_tokens of every dispatched body is in 1..128000.
C27_MaxTokensInRange ==
    (hpc = "dispatched") => (body.max_tokens >= 1 /\ body.max_tokens <= 128000)

\* C28: the model name the validator is given is never the thinking alias,
\* so it adds no thinking config: a dispatched body has a thinking config
\* exactly when the handler built one (claude-3-7 alias and reasoning enabled),
\* with DEBUG_MODE on as with it off, and none for the thinking alias with
\* thinking=false.
C28_NoThinkingAddedByValidator ==
    (hpc = "dispatched")
    => /\ ReverseLookup(ModelId(req.model)) # ThinkingAlias
       /\ body.has_thinking <=> (IsClaude37(req.model) /\ UseThinkingMode(req))
       /\ (req.model = ThinkingAlias /\ req.thinking = JFalse)
            => (~ body.has_thinking /\ body.top_p # "absent")

C28_Witness ==
    /\ hpc = "dispatched" /\ debug
    /\ req.model = ThinkingAlias /\ req.thinking = JFalse
    /\ ~ body.has_thinking /\ body.top_p = "1.0"

\* C29: the completion object returned carries the extracted text and the
\* extracted thinking content in full.
C29_ResponseUnchangedByLogging ==
    (hpc = "http200")
    => /\ openai_response.text = content
       /\ openai_response.thinking = thinking_content

\* C30: the messages dispatched carry what the client sent: the prompt for
\* /v1/completions, messages of the request for /v1/chat/completions.
C30_RequestUnchangedByLogging ==
    (hpc = "dispatched")
    => /\ body.messages # <<>>
       /\ \A i \in DOMAIN body.messages :
            IF endpoint = "completions"
              THEN body.messages[i].content = req.prompt
              ELSE \E j \in DOMAIN req.messages : body.messages[i] = req.messages[j]

\* C31: for a request with max_tokens of at least 1 the dispatched
\* max_tokens, thinking config and top_p are those of the body the handler
\* builds for the request with DEBUG_MODE off, and the validation step leaves
\* the messages the handler put in the body.
C31_SameBodyInDebugMode ==
    (hpc = "dispatched" /\ ClientMaxTokens(req) >= 1)
    => LET off == BedParams(endpoint, req)
           built == BedParams(endpoint, LogRequestInfo(req))
       IN  /\ body.max_tokens = off.max_tokens
           /\ body.has_thinking = off.has_thinking
           /\ body.has_thinking => body.budget_tokens = off.budget_tokens
           /\ body.top_p = off.top_p
           /\ body.messages = built.messages

\* C32: a dispatched body has a top_p exactly when it has no thinking config.
C32_TopPIffNoThinking ==
    (hpc = "dispatched") => ((body.top_p # "absent") <=> ~ body.has_thinking)

====
